---- MODULE Spec2Model ----
(***************************************************************************)
(* Model of find_duplicates.py: the start-up cache migration and load, the *)
(* enumeration, hashing (with the write-through name+size cache), matching *)
(* and link-replacement phases of main(), abrupt termination, and a later  *)
(* run of the program on the state the earlier run left on disk.           *)
(***************************************************************************)
EXTENDS Integers, Sequences, FiniteSets, TLC

\* ------------------------------------------------------------------ bounds
MaxRuns == 2        \* number of program runs in one behaviour
MaxContent == 2     \* file contents are 0..MaxContent; content 0 is the empty file
MaxLegacy == 2      \* entries of a legacy pickle cache
MaxIoErrors == 1    \* reads that fail with OSError in one run

\* ------------------------------------------------------- the file trees
Dirs == {"/A", "/B"}
Names == {"x", "y"}

\* os.path.join(path, name)
Join(d, n) == d \o "/" \o n

Paths == {Join(d, n) : d \in Dirs, n \in Names}

\* os.path.basename(file)
Basename(p) == CHOOSE n \in Names : \E d \in Dirs : p = Join(d, n)

Dirname(p) == CHOOSE d \in Dirs : \E n \in Names : p = Join(d, n)

Contents == 0 .. MaxContent

\* number of bytes of a content: contents 1 and 2 are different bytes of the
\* same length
Size(c) == (c + 1) \div 2

NoEntry == [kind |-> "none", ref |-> ""]
RegFile(ino) == [kind |-> "file", ref |-> ino]
SymLink(target) == [kind |-> "symlink", ref |-> target]

\* the inode a path resolves to after following symlinks, "" when the path
\* does not exist, dangles or loops
RECURSIVE ResolveN(_, _, _)
ResolveN(f, p, n) ==
  IF f[p].kind = "file" THEN f[p].ref
  ELSE IF f[p].kind = "symlink" /\ n > 0 THEN ResolveN(f, f[p].ref, n - 1)
  ELSE ""

Resolve(f, p) == ResolveN(f, p, Cardinality(Paths))

\* os.path.islink
IsLink(f, p) == f[p].kind = "symlink"

\* os.path.exists (follows symlinks)
Exists(f, p) == Resolve(f, p) # ""

\* os.stat(p).st_nlink
NLink(f, p) == Cardinality({q \in Paths : f[q] = RegFile(Resolve(f, p))})

\* ------------------------------------------------------------ the cache
None == "None"

Algorithms == {"sha1", "sha256", "sha512", "md5"}

\* hashlib digest of a content under an algorithm (collision free)
HexDigest(alg, c) == alg \o ":" \o ToString(c)

\* a key written without the separating blank
KeyNoSeparator(filesize, basename) == ToString(filesize) \o basename

\* the cache key f"{filesize} {basename}"
Key(filesize, basename) == ToString(filesize) \o " " \o basename

\* d[k] = v on a Python dict
Put(d, k, v) == [x \in (DOMAIN d) \cup {k} |-> IF x = k THEN v ELSE d[x]]

EmptyDict == <<>>

Absent == [st |-> "absent", data |-> EmptyDict]
Partial == [st |-> "partial", data |-> EmptyDict]
Written(d) == [st |-> "ok", data |-> d]

\* os.path.exists on one of the cache files
FileExists(file) == file.st # "absent"

\* ------------------------------------------------------------ the state
VARIABLES
  pc,               \* position of the process
  run,              \* number of the current run of the program
  fs,               \* the file trees: path -> entry
  content,          \* inode -> content (the program never writes file data)
  walk_order,       \* directory -> the order in which os.walk lists its files
  argv,             \* the command line the program is run with
  fs0,              \* the file trees when the current run started
  jsonFile,         \* hashes.json
  backupFile,       \* hashes_backup.json
  legacyFile,       \* hashes.p
  retiredFile,      \* hashes_legacy.p
  hashes,           \* the in-memory HashStore (module global)
  data,             \* save_hashes' argument
  save_ret,         \* where save_hashes returns to
  args,             \* the parsed command line
  use_source_cache,
  use_destination_cache,
  source_files,
  destination_files,
  source_hashes,    \* insertion-ordered dict, as a sequence of <<hash, path>>
  destination_hashes,
  source_files_unhashed_size,
  source_files_hashed_size,
  destination_files_unhashed_size,
  destination_files_hashed_size,
  i,                \* index of the hashing loops
  sf,               \* loop variable of the source loop ("" while unbound)
  df,               \* loop variable of the destination loop
  add,
  hash,
  matches,
  m,                \* index of the link loop
  unlinks,          \* history: os.unlink calls of this run, per path
  links,            \* history: link creations of this run, per path
  hasher_calls,     \* history: hash_file calls of this run
  saves,            \* history: save_hashes calls of this run
  fs_failed,        \* history: a filesystem operation of this run failed
  io_errors,        \* history: reads that failed in this run
  returned,         \* history: the store when get_file_hash last returned
  last_end,         \* history: how the previous run ended ("" in the first run)
  files0,           \* history: the four cache files when the current run started
  loaded,           \* history: the store this run loaded at start-up
  call,             \* history: hash_file and save_hashes calls made before the
                    \* current get_file_hash call
  answer            \* history: the operator's answer to the migration prompt

disk == <<fs, content, walk_order, argv, jsonFile, backupFile, legacyFile, retiredFile>>

mem == <<hashes, data, save_ret, args, use_source_cache, use_destination_cache,
         source_files, destination_files, source_hashes, destination_hashes,
         source_files_unhashed_size, source_files_hashed_size,
         destination_files_unhashed_size, destination_files_hashed_size,
         i, sf, df, add, hash, matches, m>>

hist == <<unlinks, links, hasher_calls, saves, fs_failed, io_errors>>

ghost == <<loaded, call, answer>>

vars == <<pc, run, last_end, fs0, files0, disk, mem, hist, returned, ghost>>

NoArgs == [softlink |-> FALSE, hardlink |-> FALSE, follow_symlinks |-> FALSE,
           dont_ignore_hardlinks |-> FALSE, no_cache |-> FALSE,
           no_source_cache |-> FALSE, no_destination_cache |-> FALSE,
           selector |-> "", source |-> <<>>, destination |-> ""]

Terminal == {"done", "exited", "crashed", "killed"}

\* the state of a process that has not started main()
MemFresh ==
  /\ hashes' = EmptyDict /\ data' = EmptyDict /\ save_ret' = ""
  /\ args' = NoArgs
  /\ use_source_cache' = TRUE /\ use_destination_cache' = TRUE
  /\ source_files' = <<>> /\ destination_files' = <<>>
  /\ source_hashes' = <<>> /\ destination_hashes' = <<>>
  /\ source_files_unhashed_size' = 0 /\ source_files_hashed_size' = 0
  /\ destination_files_unhashed_size' = 0 /\ destination_files_hashed_size' = 0
  /\ i' = 0 /\ sf' = "" /\ df' = "" /\ add' = FALSE /\ hash' = None
  /\ matches' = <<>> /\ m' = 0

HistFresh ==
  /\ unlinks' = [p \in Paths |-> 0] /\ links' = [p \in Paths |-> 0]
  /\ hasher_calls' = 0 /\ saves' = 0 /\ fs_failed' = FALSE /\ io_errors' = 0
  /\ loaded' = EmptyDict /\ answer' = ""
  /\ call' = [hasher_calls |-> 0, saves |-> 0, json |-> Absent]

\* ------------------------------------------------------- initial states
\* the orders in which os.walk may list the files of a directory
Orders ==
  {s \in [1 .. Cardinality(Names) -> Names] : \A a, b \in DOMAIN s : a # b => s[a] # s[b]}

\* persisted stores a run may find: nothing cached, or one entry under the
\* key of a one-byte file named x (possibly stale, possibly the null marker)
InitSubmaps ==
  {EmptyDict} \cup
  {[k \in {Key(1, "x")} |-> v] : v \in {None} \cup {HexDigest("sha1", c) : c \in 1 .. MaxContent}}

InitStores == {EmptyDict} \cup {[a \in {"sha1"} |-> sub] : sub \in InitSubmaps}

\* legacy pickle caches: (basename, size) -> sha1 digest or None
LegacyKeys == {<<"x", 1>>, <<"x", 11>>, <<"1x", 1>>}
LegacyVals == {None, HexDigest("sha1", 1)}
LegacyDicts ==
  UNION {[S -> LegacyVals] : S \in {T \in SUBSET LegacyKeys : Cardinality(T) <= MaxLegacy}}

\* the files of /A/x, /A/y, /B/x, /B/y
Tree(ax, ay, bx, by) ==
  [p \in Paths |-> IF p = "/A/x" THEN ax ELSE IF p = "/A/y" THEN ay
                   ELSE IF p = "/B/x" THEN bx ELSE by]

\* two matching pairs; a duplicate inside the source tree and two files of
\* one name and size but different bytes; empty files
BaseTrees == {Tree(1, 2, 1, 2), Tree(1, 1, 2, 1), Tree(1, 0, 0, 1)}

AllTrees == {c \in [Paths -> Contents] : c["/A/x"] = 1}

SameOrder(ord) == [d \in Dirs |-> ord]

DefaultOrder == SameOrder(<<"x", "y">>)

Cmd(soft, hard, follow, dih, nc, nsc, ndc, sel, src, dst) ==
  [softlink |-> soft, hardlink |-> hard, follow_symlinks |-> follow,
   dont_ignore_hardlinks |-> dih, no_cache |-> nc, no_source_cache |-> nsc,
   no_destination_cache |-> ndc, selector |-> sel, source |-> src, destination |-> dst]

Scenario(c, o, a, j, l) ==
  [content |-> c, walk_order |-> o, argv |-> a, json |-> j, legacy |-> l]

LinkModes == {<<FALSE, FALSE>>, <<TRUE, FALSE>>, <<FALSE, TRUE>>}

\* every tree in every link mode, without a cache file
TreeScenarios ==
  {Scenario(c, SameOrder(o),
            Cmd(lm[1], lm[2], FALSE, FALSE, FALSE, FALSE, FALSE, "", << "/A" >>, "/B"),
            Absent, Absent) :
     c \in AllTrees, o \in Orders, lm \in LinkModes}

\* every root layout, link mode and link policy
RootScenarios ==
  {Scenario(c, DefaultOrder,
            Cmd(soft, hard, follow, dih, FALSE, FALSE, FALSE, "", r[1], r[2]),
            Absent, Absent) :
     c \in BaseTrees, soft \in BOOLEAN, hard \in BOOLEAN, follow \in BOOLEAN,
     dih \in BOOLEAN,
     r \in {<< << "/A" >>, "/B" >>, << << "/A" >>, "/A" >>, << << "/A", "/B" >>, "/B" >>}}

\* every persisted store with every cache switch
CacheScenarios ==
  {Scenario(c, DefaultOrder,
            Cmd(FALSE, FALSE, FALSE, FALSE, nc[1], nc[2], nc[3], "", src, "/B"),
            Written(st), Absent) :
     c \in BaseTrees, st \in InitStores, src \in {<< "/A" >>, << "/A", "/B" >>},
     nc \in {<<FALSE, FALSE, FALSE>>, <<TRUE, FALSE, FALSE>>,
             <<FALSE, TRUE, FALSE>>, <<FALSE, FALSE, TRUE>>}}

\* every legacy cache, with and without a current-format file beside it
LegacyScenarios ==
  {Scenario(Tree(1, 2, 1, 2), DefaultOrder,
            Cmd(FALSE, FALSE, FALSE, FALSE, FALSE, FALSE, FALSE, "", << "/A" >>, "/B"),
            j, Written(l)) :
     l \in LegacyDicts, j \in {Absent, Written(EmptyDict)}}

\* every hash-algorithm selector
SelectorScenarios ==
  {Scenario(Tree(1, 2, 1, 2), DefaultOrder,
            Cmd(FALSE, FALSE, FALSE, FALSE, FALSE, FALSE, FALSE, sel, << "/A" >>, "/B"),
            j, Absent) :
     sel \in Algorithms, j \in {Absent, Written([a \in {"sha1"} |-> EmptyDict])}}

\* both link modes requested while a legacy cache awaits migration
ConflictScenarios ==
  {Scenario(Tree(1, 2, 1, 2), DefaultOrder,
            Cmd(TRUE, TRUE, FALSE, FALSE, FALSE, FALSE, FALSE, "", << "/A" >>, "/B"),
            Absent, Written(l)) :
     l \in LegacyDicts}

Scenarios ==
  TreeScenarios \cup RootScenarios \cup CacheScenarios \cup LegacyScenarios
  \cup SelectorScenarios \cup ConflictScenarios

Init ==
  /\ pc = "migrate" /\ run = 1 /\ last_end = ""
  /\ \E sc \in Scenarios :
       /\ content = sc.content
       /\ walk_order = sc.walk_order
       /\ argv = sc.argv
       /\ jsonFile = sc.json
       /\ legacyFile = sc.legacy
  /\ fs = [p \in Paths |-> RegFile(p)]
  /\ fs0 = fs
  /\ backupFile = Absent /\ retiredFile = Absent
  /\ hashes = EmptyDict /\ data = EmptyDict /\ save_ret = ""
  /\ args = NoArgs
  /\ use_source_cache = TRUE /\ use_destination_cache = TRUE
  /\ source_files = <<>> /\ destination_files = <<>>
  /\ source_hashes = <<>> /\ destination_hashes = <<>>
  /\ source_files_unhashed_size = 0 /\ source_files_hashed_size = 0
  /\ destination_files_unhashed_size = 0 /\ destination_files_hashed_size = 0
  /\ i = 0 /\ sf = "" /\ df = "" /\ add = FALSE /\ hash = None
  /\ matches = <<>> /\ m = 0
  /\ unlinks = [p \in Paths |-> 0] /\ links = [p \in Paths |-> 0]
  /\ hasher_calls = 0 /\ saves = 0 /\ fs_failed = FALSE /\ io_errors = 0
  /\ returned = EmptyDict
  /\ files0 = <<jsonFile, backupFile, legacyFile, retiredFile>>
  /\ loaded = EmptyDict /\ answer = ""
  /\ call = [hasher_calls |-> 0, saves |-> 0, json |-> Absent]

\* ------------------------------------------------------------ save_hashes
\* save_hashes(file, data) is entered with pc = "save"; the process can be
\* terminated between any two of its filesystem calls

\* os.remove(backup_path)
SaveRemoveBackup ==
  /\ pc = "save" /\ FileExists(jsonFile) /\ FileExists(backupFile)
  /\ backupFile' = Absent
  /\ pc' = "save_rename"
  /\ UNCHANGED <<run, last_end, fs0, files0, fs, content, walk_order, argv, jsonFile, legacyFile, retiredFile,
                 mem, hist, returned, ghost>>

\* a rotation that would put the store being saved in the backup
RotatedBackupNew == Written(data)

\* line 224: the backup is the cache file as it was, under the backup name
RotatedBackup == jsonFile

\* os.rename(file, backup_path)
SaveRename ==
  /\ \/ pc = "save" /\ FileExists(jsonFile) /\ ~FileExists(backupFile)
     \/ pc = "save_rename"
  /\ backupFile' = RotatedBackup
  /\ jsonFile' = Absent
  /\ pc' = "save_open"
  /\ UNCHANGED <<run, last_end, fs0, files0, fs, content, walk_order, argv, legacyFile, retiredFile,
                 mem, hist, returned, ghost>>

\* open(file, 'w'): the file exists and is empty
SaveOpen ==
  /\ \/ pc = "save" /\ ~FileExists(jsonFile)
     \/ pc = "save_open"
  /\ jsonFile' = Partial
  /\ pc' = "save_dump"
  /\ UNCHANGED <<run, last_end, fs0, files0, fs, content, walk_order, argv, backupFile, legacyFile, retiredFile,
                 mem, hist, returned, ghost>>

\* json.dump(data, ...) completes; json.load gives back the same dict of
\* dicts (string keys, string or null values)
SaveDump ==
  /\ pc = "save_dump"
  /\ jsonFile' = Written(data)
  /\ pc' = save_ret
  /\ saves' = saves + 1
  /\ UNCHANGED <<run, last_end, fs0, files0, fs, content, walk_order, argv, backupFile, legacyFile, retiredFile,
                 mem, unlinks, links, hasher_calls, fs_failed, io_errors, returned, ghost>>

\* ------------------------------------------------------- module start-up
MigrationNeeded == ~FileExists(jsonFile) /\ FileExists(legacyFile)

\* the legacy dict rewritten under the string keys
ChangedData(legacy_data) ==
  LET new_keys == {Key(k[2], k[1]) : k \in DOMAIN legacy_data}
  IN  [nk \in new_keys |->
         legacy_data[CHOOSE k \in DOMAIN legacy_data : Key(k[2], k[1]) = nk]]

\* a prompt that would take no answer as a refusal
DeclinedNever(migrate) == FALSE

\* line 18: the answer that aborts the run
Declined(migrate) == migrate = "n"

\* lines 13-31: the prompt is repeated until the operator answers y or n; n
\* exits, y builds the new store and calls save_hashes
MigratePrompt ==
  /\ pc = "migrate" /\ MigrationNeeded
  /\ \E migrate \in {"y", "n"} :
       /\ answer' = migrate
       /\ IF Declined(migrate)
          THEN /\ pc' = "exited"
               /\ UNCHANGED <<data, save_ret>>
          ELSE /\ data' = [a \in {"sha1"} |-> ChangedData(legacyFile.data)]
               /\ save_ret' = "migrate_rename"
               /\ pc' = "save"
  /\ UNCHANGED <<run, last_end, fs0, files0, disk, hashes, args, use_source_cache,
                 use_destination_cache, source_files, destination_files,
                 source_hashes, destination_hashes, source_files_unhashed_size,
                 source_files_hashed_size, destination_files_unhashed_size,
                 destination_files_hashed_size, i, sf, df, add, hash, matches, m,
                 hist, returned, loaded, call>>

\* a rename that would leave the file under its old name as well
LegacyAfterRenameKept == legacyFile

\* line 34: os.rename leaves nothing under the old name
LegacyAfterRename == Absent

\* os.rename(hash_file_path_legacy, ".../hashes_legacy.p")
MigrateRename ==
  /\ pc = "migrate_rename"
  /\ retiredFile' = legacyFile
  /\ legacyFile' = LegacyAfterRename
  /\ pc' = "load"
  /\ UNCHANGED <<run, last_end, fs0, files0, fs, content, walk_order, argv, jsonFile, backupFile, mem, hist, returned, ghost>>

\* migrate_database() has nothing to do
MigrateSkip ==
  /\ pc = "migrate" /\ ~MigrationNeeded
  /\ pc' = "load"
  /\ UNCHANGED <<run, last_end, fs0, files0, disk, mem, hist, returned, ghost>>

\* hashes = load_hashes(...) or dict(); json.load raises on a truncated file
LoadHashes ==
  /\ pc = "load"
  /\ IF jsonFile.st = "partial"
     THEN pc' = "crashed" /\ UNCHANGED <<hashes, returned, loaded>>
     ELSE /\ hashes' = jsonFile.data
          /\ returned' = jsonFile.data
          /\ loaded' = jsonFile.data
          /\ pc' = "main"
  /\ UNCHANGED <<run, last_end, fs0, files0, disk, data, save_ret, args, use_source_cache,
                 use_destination_cache, source_files, destination_files,
                 source_hashes, destination_hashes, source_files_unhashed_size,
                 source_files_hashed_size, destination_files_unhashed_size,
                 destination_files_hashed_size, i, sf, df, add, hash, matches, m,
                 hist, call, answer>>

\* ------------------------------------------------------------- helpers
\* _file_size raises when the path does not resolve; safe_file_size gives 0
SafeFileSize(file) ==
  IF Exists(fs, file) THEN Size(content[Resolve(fs, file)]) ELSE 0

\* has_file_hash(file, hash_function_name) on the store h
HasFileHash(h, file, hash_function_name) ==
  IF Exists(fs, file)
  THEN Key(Size(content[Resolve(fs, file)]), Basename(file)) \in DOMAIN h[hash_function_name]
  ELSE FALSE

\* hash_file: None when the size cannot be read, the file is empty or the
\* read fails (io_ok = FALSE), else the digest of the bytes
HashFile(file, hash_function, io_ok) ==
  IF ~Exists(fs, file) THEN None
  ELSE IF Size(content[Resolve(fs, file)]) <= 0 THEN None
  ELSE IF ~io_ok THEN None
  ELSE HexDigest(hash_function, content[Resolve(fs, file)])

\* the local hash_function of main(): the four add_argument calls are given
\* dest=None, so argparse stores the choice under args.sha1, args.sha256, ...
\* and the local stays None until line 107 sets it to hashlib.sha1
HashFunction(selector) == "sha1"

\* an enumeration that would skip neither symlinks nor hardlinked files
GetAllFilesInUnfiltered(folder, ignore_softlinks, ignore_hardlinks) ==
  LET ord == walk_order[folder]
      Keep(p) == fs[p].kind # "none"
  IN  SelectSeq([k \in 1 .. Len(ord) |-> Join(folder, ord[k])], Keep)

\* get_all_files on one folder
GetAllFilesIn(folder, ignore_softlinks, ignore_hardlinks) ==
  LET ord == walk_order[folder]
      Keep(p) ==
        /\ fs[p].kind # "none"
        /\ ~(IsLink(fs, p) /\ (ignore_softlinks \/ ~Exists(fs, p)))
        /\ ~(ignore_hardlinks /\ NLink(fs, p) > 1)
  IN  SelectSeq([k \in 1 .. Len(ord) |-> Join(folder, ord[k])], Keep)

\* get_all_files on a list of folders
RECURSIVE GetAllFiles(_, _, _)
GetAllFiles(folders, ignore_softlinks, ignore_hardlinks) ==
  IF folders = <<>> THEN <<>>
  ELSE GetAllFilesIn(Head(folders), ignore_softlinks, ignore_hardlinks)
       \o GetAllFiles(Tail(folders), ignore_softlinks, ignore_hardlinks)

\* sum(map(safe_file_size, filter(not has_file_hash or not use_cache, files)))
RECURSIVE UnhashedSize(_, _, _, _)
UnhashedSize(files, h, hash_function_name, use_cache) ==
  IF files = <<>> THEN 0
  ELSE (IF ~HasFileHash(h, Head(files), hash_function_name) \/ ~use_cache
        THEN SafeFileSize(Head(files)) ELSE 0)
       + UnhashedSize(Tail(files), h, hash_function_name, use_cache)

\* a map that would keep the first path recorded for a digest
OrderedPutKeepFirst(d, k, v) ==
  IF \E n \in DOMAIN d : d[n][1] = k THEN d ELSE Append(d, <<k, v>>)

\* d[k] = v on an insertion-ordered dict kept as a sequence of <<k, v>>
RECURSIVE OrderedPut(_, _, _)
OrderedPut(d, k, v) ==
  IF d = <<>> THEN << <<k, v>> >>
  ELSE IF Head(d)[1] = k THEN << <<k, v>> >> \o Tail(d)
  ELSE << Head(d) >> \o OrderedPut(Tail(d), k, v)

\* os.path.abspath: every path of the model is absolute and normalised
Abspath(p) == p

\* -------------------------------------------------------------- main()
\* lines 88-114 when both link modes are requested
MainConflict ==
  /\ pc = "main"
  /\ argv.softlink /\ argv.hardlink
  /\ args' = argv
  /\ LET name == HashFunction(argv.selector)
     IN  hashes' = IF name \in DOMAIN hashes THEN hashes ELSE Put(hashes, name, EmptyDict)
  /\ pc' = "exited"
  /\ UNCHANGED <<run, last_end, fs0, files0, disk, data, save_ret, use_source_cache,
                 use_destination_cache, source_files, destination_files,
                 source_hashes, destination_hashes, source_files_unhashed_size,
                 source_files_hashed_size, destination_files_unhashed_size,
                 destination_files_hashed_size, i, sf, df, add, hash, matches, m,
                 hist, returned, ghost>>

\* lines 88-137: parse the arguments, enumerate both trees, total the bytes
\* still to hash
MainStart ==
  /\ pc = "main"
  /\ ~(argv.softlink /\ argv.hardlink)
  /\ args' = argv
  /\ LET name == HashFunction(argv.selector)
         h == IF name \in DOMAIN hashes THEN hashes ELSE Put(hashes, name, EmptyDict)
         usc == (~argv.no_cache) /\ (~argv.no_source_cache)
         udc == (~argv.no_cache) /\ (~argv.no_destination_cache)
         sfiles == GetAllFiles(argv.source, ~argv.follow_symlinks, FALSE)
         dfiles == GetAllFilesIn(argv.destination, ~argv.follow_symlinks,
                                 ~argv.dont_ignore_hardlinks)
     IN  /\ hashes' = h
         /\ use_source_cache' = usc
         /\ use_destination_cache' = udc
         /\ source_files' = sfiles
         /\ destination_files' = dfiles
         /\ source_files_unhashed_size' = UnhashedSize(sfiles, h, name, usc)
         /\ destination_files_unhashed_size' = UnhashedSize(dfiles, h, name, udc)
  /\ source_hashes' = <<>> /\ destination_hashes' = <<>>
  /\ source_files_hashed_size' = 0 /\ destination_files_hashed_size' = 0
  /\ i' = 1
  /\ pc' = "src_loop"
  /\ UNCHANGED <<run, last_end, fs0, files0, disk, data, save_ret, sf, df, add, hash, matches, m,
                 hist, returned, ghost>>

\* a lookup that would answer from the store even when caching is disabled
CacheHitIgnoringSwitch(use_cache, key, hash_function_name) ==
  key \in DOMAIN hashes[hash_function_name]

\* line 343: the lookup that decides whether the file is hashed
CacheHit(use_cache, key, hash_function_name) ==
  use_cache /\ key \in DOMAIN hashes[hash_function_name]

\* a hit that would not give back what is stored
StoredHashForgotten(hash_function_name, key) == None

\* line 348: the stored entry a hit returns
StoredHash(hash_function_name, key) == hashes[hash_function_name][key]

\* get_file_hash(file, hash_function, use_cache), continuing at ret: a stored
\* entry is returned at once; otherwise the file is hashed, the result is put
\* in the store (whether or not use_cache is set) and save_hashes is called
GetFileHash(file, use_cache, ret) ==
  LET filesize == SafeFileSize(file)
      key == Key(filesize, Basename(file))
      hash_function_name == HashFunction(args.selector)
  IN  IF CacheHit(use_cache, key, hash_function_name)
      THEN /\ hash' = StoredHash(hash_function_name, key)
           /\ pc' = ret
           /\ UNCHANGED <<hashes, data, save_ret, hasher_calls, io_errors>>
      ELSE \E io_ok \in {TRUE} \cup {b \in {FALSE} : filesize > 0 /\ io_errors < MaxIoErrors} :
             LET h == HashFile(file, hash_function_name, io_ok)
             IN  /\ hash' = h
                 /\ io_errors' = IF io_ok THEN io_errors ELSE io_errors + 1
                 /\ hashes' = Put(hashes, hash_function_name,
                                  Put(hashes[hash_function_name], key, h))
                 /\ data' = hashes'
                 /\ save_ret' = ret
                 /\ pc' = "save"
                 /\ hasher_calls' = hasher_calls + 1

\* lines 139-143: the next source file
SrcGetFileHash ==
  /\ pc = "src_loop" /\ i <= Len(source_files)
  /\ sf' = source_files[i]
  /\ IF ~IsLink(fs, sf') \/ args.follow_symlinks
     THEN /\ add' = (~HasFileHash(hashes, sf', HashFunction(args.selector))
                     \/ ~use_source_cache)
          /\ call' = [hasher_calls |-> hasher_calls, saves |-> saves, json |-> jsonFile]
          /\ GetFileHash(sf', use_source_cache, "src_tail")
          /\ UNCHANGED i
     ELSE /\ i' = i + 1
          /\ UNCHANGED <<pc, add, hash, hashes, data, save_ret, hasher_calls, io_errors, call>>
  /\ UNCHANGED <<run, last_end, fs0, files0, disk, args, use_source_cache, use_destination_cache,
                 source_files, destination_files, source_hashes, destination_hashes,
                 source_files_unhashed_size, source_files_hashed_size,
                 destination_files_unhashed_size, destination_files_hashed_size,
                 df, matches, m, unlinks, links, saves, fs_failed, returned, loaded, answer>>

\* a test that would let the null marker into the digest maps
HasDigestAlways(h) == TRUE

\* lines 153, 172: if hash is not None
HasDigest(h) == h # None

\* lines 144-154: the progress line (its divisions raise ZeroDivisionError
\* when either byte count is 0) and the entry of source_hashes
SrcTail ==
  /\ pc = "src_tail"
  /\ returned' = hashes
  /\ LET hashed == source_files_hashed_size + SafeFileSize(sf)
     IN  IF add /\ (source_files_unhashed_size = 0 \/ hashed = 0)
         THEN /\ source_files_hashed_size' = hashed
              /\ pc' = "crashed"
              /\ UNCHANGED <<source_hashes, i>>
         ELSE /\ source_files_hashed_size' = IF add THEN hashed ELSE source_files_hashed_size
              /\ source_hashes' = IF HasDigest(hash)
                                  THEN OrderedPut(source_hashes, hash, Abspath(sf))
                                  ELSE source_hashes
              /\ i' = i + 1
              /\ pc' = "src_loop"
  /\ UNCHANGED <<run, last_end, fs0, files0, disk, hashes, data, save_ret, args, use_source_cache,
                 use_destination_cache, source_files, destination_files,
                 destination_hashes, source_files_unhashed_size,
                 destination_files_unhashed_size, destination_files_hashed_size,
                 sf, df, add, hash, matches, m, hist, ghost>>

\* line 156: the source loop is over
SrcLoopEnd ==
  /\ pc = "src_loop" /\ i > Len(source_files)
  /\ i' = 1
  /\ pc' = "dst_loop"
  /\ UNCHANGED <<run, last_end, fs0, files0, disk, hashes, data, save_ret, args, use_source_cache,
                 use_destination_cache, source_files, destination_files,
                 source_hashes, destination_hashes, source_files_unhashed_size,
                 source_files_hashed_size, destination_files_unhashed_size,
                 destination_files_hashed_size, sf, df, add, hash, matches, m,
                 hist, returned, ghost>>

\* lines 158-161: the next destination file
DstGetFileHash ==
  /\ pc = "dst_loop" /\ i <= Len(destination_files)
  /\ df' = destination_files[i]
  /\ IF ~IsLink(fs, df') \/ args.follow_symlinks
     THEN /\ add' = (~HasFileHash(hashes, df', HashFunction(args.selector))
                     \/ ~use_destination_cache)
          /\ call' = [hasher_calls |-> hasher_calls, saves |-> saves, json |-> jsonFile]
          /\ GetFileHash(df', use_destination_cache, "dst_tail")
          /\ UNCHANGED i
     ELSE /\ i' = i + 1
          /\ UNCHANGED <<pc, add, hash, hashes, data, save_ret, hasher_calls, io_errors, call>>
  /\ UNCHANGED <<run, last_end, fs0, files0, disk, args, use_source_cache, use_destination_cache,
                 source_files, destination_files, source_hashes, destination_hashes,
                 source_files_unhashed_size, source_files_hashed_size,
                 destination_files_unhashed_size, destination_files_hashed_size,
                 sf, matches, m, unlinks, links, saves, fs_failed, returned, loaded, answer>>

\* lines 162-173: line 163 adds safe_file_size(sf), the size of the last
\* source file, and raises NameError when the source loop never ran
DstTail ==
  /\ pc = "dst_tail"
  /\ returned' = hashes
  /\ LET hashed == destination_files_hashed_size + SafeFileSize(sf)
     IN  IF add /\ sf = ""
         THEN /\ pc' = "crashed"
              /\ UNCHANGED <<destination_files_hashed_size, destination_hashes, i>>
         ELSE IF add /\ (destination_files_unhashed_size = 0 \/ hashed = 0)
         THEN /\ destination_files_hashed_size' = hashed
              /\ pc' = "crashed"
              /\ UNCHANGED <<destination_hashes, i>>
         ELSE /\ destination_files_hashed_size' =
                   IF add THEN hashed ELSE destination_files_hashed_size
              /\ destination_hashes' = IF HasDigest(hash)
                                       THEN OrderedPut(destination_hashes, hash, Abspath(df))
                                       ELSE destination_hashes
              /\ i' = i + 1
              /\ pc' = "dst_loop"
  /\ UNCHANGED <<run, last_end, fs0, files0, disk, hashes, data, save_ret, args, use_source_cache,
                 use_destination_cache, source_files, destination_files,
                 source_hashes, source_files_unhashed_size, source_files_hashed_size,
                 destination_files_unhashed_size, sf, df, add, hash, matches, m, hist, ghost>>

\* a comparison that would find no two digests equal
DigestsEqualNever(sh, dh) == FALSE

\* line 191: if sh == dh
DigestsEqual(sh, dh) == sh = dh

\* lines 189-197: for sh in source_hashes: for dh in destination_hashes
RECURSIVE Matches(_, _)
Matches(shs, dhs) ==
  IF shs = <<>> THEN <<>>
  ELSE LET sh == Head(shs)
           Same(dh) == DigestsEqual(sh[1], dh[1])
           found == SelectSeq(dhs, Same)
       IN  [k \in 1 .. Len(found) |-> <<sh[2], found[k][2]>>] \o Matches(Tail(shs), dhs)

\* line 200 without its test: the link loop runs in every mode
LinkRequestedAlways == TRUE

\* line 200: a link mode was requested (otherwise the run is a dry run)
LinkRequested == args.softlink \/ args.hardlink

\* lines 175-204, 212-216: the destination loop is over; match, then link or
\* finish the dry run
Match ==
  /\ pc = "dst_loop" /\ i > Len(destination_files)
  /\ matches' = Matches(source_hashes, destination_hashes)
  /\ m' = 1
  /\ pc' = IF LinkRequested THEN "link" ELSE "done"
  /\ UNCHANGED <<run, last_end, fs0, files0, disk, hashes, data, save_ret, args, use_source_cache,
                 use_destination_cache, source_files, destination_files,
                 source_hashes, destination_hashes, source_files_unhashed_size,
                 source_files_hashed_size, destination_files_unhashed_size,
                 destination_files_hashed_size, i, sf, df, add, hash, hist, returned, ghost>>

\* line 205: for source, destination in matches
MatchSource(k) == matches[k][1]

\* line 205 with the pair unpacked the wrong way round
MatchDestinationSwapped(k) == matches[k][1]

MatchDestination(k) == matches[k][2]

\* line 206: os.unlink(destination); ok = FALSE is a failure of the call
\* (permissions, read-only filesystem), which raises out of main()
LinkUnlink ==
  /\ pc = "link" /\ m <= Len(matches)
  /\ LET destination == MatchDestination(m)
     IN  \E ok \in BOOLEAN :
           IF ok /\ fs[destination].kind # "none"
           THEN /\ fs' = [fs EXCEPT ![destination] = NoEntry]
                /\ unlinks' = [unlinks EXCEPT ![destination] = @ + 1]
                /\ pc' = "link_create"
                /\ UNCHANGED fs_failed
           ELSE /\ fs_failed' = TRUE
                /\ pc' = "crashed"
                /\ UNCHANGED <<fs, unlinks>>
  /\ UNCHANGED <<run, last_end, fs0, files0, content, walk_order, argv, jsonFile, backupFile, legacyFile, retiredFile,
                 mem, links, hasher_calls, saves, io_errors, returned, ghost>>

\* what os.link(source, destination) leaves at destination: link(2) on a
\* symlink links the symlink itself or the file it points to, by platform
HardLinkResults(source) ==
  IF fs[source].kind = "file" THEN {fs[source]}
  ELSE IF fs[source].kind = "symlink"
       THEN {fs[source]} \cup
            (IF Exists(fs, source) THEN {RegFile(Resolve(fs, source))} ELSE {})
       ELSE {}

\* lines 207-210: os.symlink or os.link; a failure raises out of main()
LinkCreate ==
  /\ pc = "link_create"
  /\ LET source == MatchSource(m)
         destination == MatchDestination(m)
         results == IF fs[destination].kind # "none" THEN {}
                    ELSE IF args.softlink THEN {SymLink(source)}
                    ELSE HardLinkResults(source)
     IN  \/ \E e \in results :
              /\ fs' = [fs EXCEPT ![destination] = e]
              /\ links' = [links EXCEPT ![destination] = @ + 1]
              /\ m' = m + 1
              /\ pc' = "link"
              /\ UNCHANGED fs_failed
         \/ /\ fs_failed' = TRUE
            /\ pc' = "crashed"
            /\ UNCHANGED <<fs, links, m>>
  /\ UNCHANGED <<run, last_end, fs0, files0, content, walk_order, argv, jsonFile, backupFile, legacyFile, retiredFile,
                 hashes, data, save_ret, args, use_source_cache, use_destination_cache,
                 source_files, destination_files, source_hashes, destination_hashes,
                 source_files_unhashed_size, source_files_hashed_size,
                 destination_files_unhashed_size, destination_files_hashed_size,
                 i, sf, df, add, hash, matches, unlinks, hasher_calls, saves,
                 io_errors, returned, ghost>>

\* line 211: every match has been processed
LinkDone ==
  /\ pc = "link" /\ m > Len(matches)
  /\ pc' = "done"
  /\ UNCHANGED <<run, last_end, fs0, files0, disk, mem, hist, returned, ghost>>

\* ------------------------------------------- termination and later runs
\* the process is terminated abruptly; its memory is gone, and the history
\* of its calls is not kept
Kill ==
  /\ pc \notin Terminal
  /\ pc' = "killed"
  /\ MemFresh /\ HistFresh
  /\ UNCHANGED <<run, last_end, fs0, files0, disk, returned>>

\* the program is started again on what the previous run left on disk
Restart ==
  /\ pc \in Terminal /\ run < MaxRuns
  /\ pc' = "migrate"
  /\ run' = run + 1
  /\ last_end' = pc
  /\ fs0' = fs
  /\ files0' = <<jsonFile, backupFile, legacyFile, retiredFile>>
  /\ MemFresh /\ HistFresh
  /\ UNCHANGED <<disk, returned>>

Next ==
  \/ MigratePrompt \/ MigrateRename \/ MigrateSkip \/ LoadHashes
  \/ SaveRemoveBackup \/ SaveRename \/ SaveOpen \/ SaveDump
  \/ MainConflict \/ MainStart
  \/ SrcGetFileHash \/ SrcTail \/ SrcLoopEnd
  \/ DstGetFileHash \/ DstTail
  \/ Match \/ LinkUnlink \/ LinkCreate \/ LinkDone
  \/ Kill \/ Restart

Spec == Init /\ [][Next]_vars


\* ------------------------------------------------------------ properties
\* neither --softlink nor --hardlink was given
DryRun == ~argv.softlink /\ ~argv.hardlink

\* the content a path resolves to in the trees f, -1 when it resolves to none
ContentAt(f, p) == IF Exists(f, p) THEN content[Resolve(f, p)] ELSE -1

\* the number of matches whose destination is p
MatchCount(p) == Cardinality({k \in 1 .. Len(matches) : matches[k][2] = p})

\* C1: in dry-run mode no unlink, symlink or hardlink is performed and every
\* path of the trees is, in every state of the run, what it was at the start
C1_DryRunNeverMutates ==
  DryRun => /\ fs = fs0
            /\ \A p \in Paths : unlinks[p] = 0 /\ links[p] = 0

\* a dry run over trees with a match and an existing cache file has finished
C1_Witness ==
  DryRun /\ pc = "done" /\ Len(matches) > 0 /\ FileExists(files0[1])

\* C2: after a match (S, D) has been processed in a link mode, D resolves to
\* a file with the content D had before the run and S still has its content
C2_LinkKeepsContents ==
  pc \in {"link", "link_create", "done", "crashed"} =>
    \A k \in 1 .. Len(matches) :
      k < m => /\ ContentAt(fs, matches[k][2]) = ContentAt(fs0, matches[k][2])
               /\ ContentAt(fs, matches[k][1]) = ContentAt(fs0, matches[k][1])

\* C3: in no state of the link phase is a matched destination path neither
\* its original file nor a link to its source
C3_ReplaceIsAtomic ==
  pc \in {"link", "link_create", "done", "crashed"} =>
    \A k \in 1 .. Len(matches) :
      LET S == matches[k][1]
          D == matches[k][2]
      IN  \/ fs[D] = fs0[D]
          \/ fs[D] = SymLink(S)
          \/ fs[D].kind = "file" /\ fs[D] = fs[S]

\* C4: a link run that finishes without a failed filesystem call has done
\* exactly one unlink and one link creation (of the requested kind) at the
\* destination of every match, and none at any other path
C4_OneUnlinkOneLinkPerMatch ==
  (pc = "done" /\ ~DryRun /\ ~fs_failed) =>
    \A p \in Paths :
      /\ unlinks[p] = MatchCount(p)
      /\ links[p] = MatchCount(p)
      /\ MatchCount(p) <= 1
      /\ MatchCount(p) = 1 =>
           fs[p].kind = (IF argv.softlink THEN "symlink" ELSE "file")

\* a link run with two matches has finished
C4_Witness ==
  pc = "done" /\ ~DryRun /\ ~fs_failed /\ Len(matches) = 2

\* C5: a failed unlink or link creation does not end the link loop: every
\* later match is still processed
C5_FailureDoesNotAbort ==
  (pc = "crashed" /\ fs_failed) =>
    \A k \in 1 .. Len(matches) : k > m => unlinks[matches[k][2]] > 0


\* the entries of a store, as <<algorithm, key, digest>>
Entries(store) ==
  UNION {{<<a, k, store[a][k]>> : k \in DOMAIN store[a]} : a \in DOMAIN store}

\* what load_hashes gives the next startup: the content of hashes.json when
\* it is there and complete (the backup file is never read)
StoreOnDisk == IF jsonFile.st = "ok" THEN jsonFile.data ELSE EmptyDict

\* C6: when a run was terminated abruptly, the store the next startup loads
\* lacks at most one of the entries that were loaded at the start of that run
\* or stored by a get_file_hash call that had returned
C6_KillLosesAtMostOneEntry ==
  (pc = "load" /\ last_end = "killed") =>
    Cardinality(Entries(returned) \ Entries(StoreOnDisk)) <= 1


\* a get_file_hash call of one of the two loops has just returned
AtReturn == pc \in {"src_tail", "dst_tail"}

\* the file of that call, its cache switch and its key
CallFile == IF pc = "src_tail" THEN sf ELSE df

CallUseCache == IF pc = "src_tail" THEN use_source_cache ELSE use_destination_cache

CallKey == Key(SafeFileSize(CallFile), Basename(CallFile))

\* the store has an entry under the key of the call
Stored(store) == "sha1" \in DOMAIN store /\ CallKey \in DOMAIN store["sha1"]

\* C7 (as stated): with caching disabled for the tree of the file, the call
\* hashes the file and leaves the in-memory store and the cache file as they
\* were
C7_DisabledCacheSkipsWrites ==
  (AtReturn /\ ~CallUseCache) =>
    /\ hasher_calls = call.hasher_calls + 1
    /\ Entries(hashes) = Entries(returned)
    /\ saves = call.saves

\* C7 (amended): with caching disabled for the tree of the file, the call
\* never answers from the store: it hashes the file, puts the result in the
\* in-memory store under the file's key and rewrites the cache file with it
C7_DisabledCacheRehashesAndWrites ==
  (AtReturn /\ ~CallUseCache) =>
    /\ hasher_calls = call.hasher_calls + 1
    /\ hash \in {None, HexDigest("sha1", ContentAt(fs, CallFile))}
    /\ hashes["sha1"][CallKey] = hash
    /\ saves = call.saves + 1
    /\ jsonFile = Written(hashes)

\* a cache-disabled call has replaced the different digest that the run had
\* loaded under the key of its file
C7_Witness ==
  /\ AtReturn /\ ~CallUseCache
  /\ Stored(loaded) /\ hash # None /\ loaded["sha1"][CallKey] \notin {None, hash}

\* C8 (as stated): a digest the run found stored under a key is what every
\* cache-enabled call for a file with that key returns, without hashing and
\* without a rewrite of the cache file
C8_StoredDigestIsReturnedForEver ==
  (AtReturn /\ CallUseCache /\ Stored(loaded)) =>
    /\ hash = loaded["sha1"][CallKey]
    /\ hasher_calls = call.hasher_calls
    /\ saves = call.saves

\* C8 (amended): a cache-enabled call for a file whose key is in the store
\* returns the entry that was last stored under the key, without hashing and
\* without changing the store or rewriting the cache file
C8_CacheRoundTrip ==
  (AtReturn /\ CallUseCache /\ Stored(returned)) =>
    /\ hash = returned["sha1"][CallKey]
    /\ hasher_calls = call.hasher_calls
    /\ saves = call.saves
    /\ Entries(hashes) = Entries(returned)

\* the second run gets, without hashing anything, a digest that only the
\* first run can have stored
C8_Witness ==
  /\ AtReturn /\ CallUseCache /\ Stored(returned)
  /\ run = 2 /\ hasher_calls = 0 /\ hash # None /\ Basename(CallFile) = "y"


\* the four cache files: hashes.json, its backup, the legacy pickle file and
\* the name the pickle file is retired to
CacheFiles == <<jsonFile, backupFile, legacyFile, retiredFile>>

\* C9: once the operator has declined the migration the run is over: nothing
\* was enumerated, hashed or linked, the legacy file is still there, there
\* is still no hashes.json, and none of the cache files was created, renamed
\* or removed
C9_DeclineAbortsAndTouchesNothing ==
  answer = "n" =>
    /\ pc = "exited"
    /\ CacheFiles = files0
    /\ FileExists(legacyFile) /\ ~FileExists(jsonFile)
    /\ source_files = <<>> /\ destination_files = <<>>
    /\ hasher_calls = 0 /\ saves = 0
    /\ fs = fs0
    /\ \A p \in Paths : unlinks[p] = 0 /\ links[p] = 0

\* the migration of a legacy file with entries has been declined
C9_Witness ==
  /\ answer = "n" /\ pc = "exited"
  /\ legacyFile.st = "ok" /\ DOMAIN legacyFile.data # {}

\* C10: when an accepted migration has completed, hashes.json holds a store
\* whose only sub-map is sha1, with as many entries as the legacy file had
\* and, for each legacy entry (basename, size), its value under the key
\* "size basename"; the legacy file has been renamed to the retired name
C10_MigrationKeepsEveryEntry ==
  (answer = "y" /\ pc = "load") =>
    LET legacy == files0[3].data
    IN  /\ jsonFile.st = "ok"
        /\ DOMAIN jsonFile.data = {"sha1"}
        /\ Cardinality(DOMAIN jsonFile.data["sha1"]) = Cardinality(DOMAIN legacy)
        /\ \A k \in DOMAIN legacy :
             LET new_key == ToString(k[2]) \o " " \o k[1]
             IN  /\ new_key \in DOMAIN jsonFile.data["sha1"]
                 /\ jsonFile.data["sha1"][new_key] = legacy[k]
        /\ retiredFile = files0[3]
        /\ legacyFile = Absent

\* a legacy file with two entries whose keys differ only in where the size
\* ends and the name begins has been migrated
C10_Witness ==
  /\ answer = "y" /\ pc = "load"
  /\ DOMAIN retiredFile.data = {<<"x", 11>>, <<"1x", 1>>}
  /\ retiredFile.data[<<"x", 11>>] # retiredFile.data[<<"1x", 1>>]


\* C11: once a migration has completed (the legacy file has been renamed to
\* its retired name), no step of this or any later run answers a migration
\* prompt or touches the legacy or the retired file again, and no startup
\* finds a migration to do
C11_MigrationIsOneTime ==
  [][FileExists(retiredFile) =>
       /\ ~MigrationNeeded
       /\ answer' \in {answer, ""}
       /\ legacyFile' = legacyFile /\ retiredFile' = retiredFile]_vars

\* a run started after a completed migration and after a termination inside
\* save_hashes that left no hashes.json has passed migrate_database
C11_Witness ==
  /\ FileExists(retiredFile) /\ run = 2 /\ last_end = "killed"
  /\ pc = "load" /\ ~FileExists(jsonFile)


\* C12: a run given both --softlink and --hardlink that has exited has
\* enumerated, hashed and linked nothing and has left every cache file and
\* every tree path as it was when the process started
C12_ConflictExitsWithoutMutation ==
  (argv.softlink /\ argv.hardlink /\ pc = "exited") =>
    /\ source_files = <<>> /\ destination_files = <<>>
    /\ hasher_calls = 0
    /\ \A p \in Paths : unlinks[p] = 0 /\ links[p] = 0
    /\ fs = fs0
    /\ saves = 0
    /\ CacheFiles = files0


\* C13: a file that yields no digest (empty, unreadable or of unknown size)
\* does not abort the hashing phase: the step after its get_file_hash call,
\* progress line included, never raises
C13_BadFileNeverAborts ==
  (sf # "" /\ hash = None /\ ~fs_failed) => pc # "crashed"


\* the match list of the run has been computed
MatchComputed ==
  pc \in {"link", "link_create", "done"} \/ (pc = "crashed" /\ fs_failed)

\* the elements of a sequence
Range(seq) == {seq[k] : k \in DOMAIN seq}

\* the number of times the pair (A, B) occurs in the match list
PairCount(A, B) == Cardinality({k \in 1 .. Len(matches) : matches[k] = <<A, B>>})

\* the files of a list that the hashing loop does not skip (lines 140, 159)
Hashed(files) == {p \in Range(files) : ~IsLink(fs0, p) \/ args.follow_symlinks}

\* C14 (as stated): every enumerated and hashed source file A and destination
\* file B with identical bytes form exactly one pair of the match list
C14_IdenticalFilesMatchOnce ==
  MatchComputed =>
    \A A \in Hashed(source_files), B \in Hashed(destination_files) :
      (ContentAt(fs0, A) = ContentAt(fs0, B) /\ ContentAt(fs0, A) > 0)
        => PairCount(A, B) = 1

\* C14 (amended): a source file A and a destination file B with identical,
\* non-empty bytes that each stand in the digest map of their tree under the
\* digest of those bytes form exactly one pair of the match list
C14_SurvivingIdenticalFilesMatchOnce ==
  MatchComputed =>
    \A A \in Hashed(source_files), B \in Hashed(destination_files) :
      LET digest == HexDigest("sha1", ContentAt(fs0, A))
      IN  (/\ ContentAt(fs0, A) = ContentAt(fs0, B) /\ ContentAt(fs0, A) > 0
           /\ <<digest, A>> \in Range(source_hashes)
           /\ <<digest, B>> \in Range(destination_hashes))
            => PairCount(A, B) = 1

\* two pairs of identical files have been matched in a run that listed the
\* files in the other order
C14_Witness ==
  /\ MatchComputed /\ Len(matches) = 2
  /\ walk_order["/A"] = <<"y", "x">>
  /\ \A k \in 1 .. 2 : /\ ContentAt(fs0, matches[k][1]) = ContentAt(fs0, matches[k][2])
                        /\ PairCount(matches[k][1], matches[k][2]) = 1


\* the algorithm the command line asks for
RequestedAlgorithm == IF argv.selector = "" THEN "sha1" ELSE argv.selector

\* C15: a file that was hashed has the digest of the algorithm chosen by the
\* selector (sha1 without one), stored in the sub-map of that algorithm
C15_SelectorChoosesAlgorithm ==
  (AtReturn /\ hasher_calls > call.hasher_calls /\ hash # None) =>
    /\ hash = HexDigest(RequestedAlgorithm, ContentAt(fs, CallFile))
    /\ RequestedAlgorithm \in DOMAIN hashes
    /\ CallKey \in DOMAIN hashes[RequestedAlgorithm]


\* C16: when a get_file_hash call has saved the store over an existing cache
\* file, the backup file is the cache file as it was before the call and the
\* cache file holds the store just saved; there is one backup file, which a
\* later save replaces
C16_BackupIsPreviousCacheFile ==
  (AtReturn /\ saves = call.saves + 1 /\ FileExists(call.json)) =>
    /\ backupFile = call.json
    /\ jsonFile = Written(hashes)

\* a save has replaced the backup of an earlier save of the same run
C16_Witness ==
  /\ AtReturn /\ saves = call.saves + 1 /\ saves >= 2
  /\ FileExists(call.json) /\ call.json.data # EmptyDict
  /\ backupFile = call.json


\* no digest stands twice in a digest-to-path map
OnePathPerDigest(map) ==
  \A a, b \in DOMAIN map : map[a][1] = map[b][1] => a = b

\* C17: each tree's digest-to-path map holds one path per digest, and after
\* every file that yielded a digest it is the path of that file (the last
\* one processed wins); each digest of the source map is in at most one
\* match, and no path is the source of two matches or the destination of two
C17_LastPathPerDigestWins ==
  /\ OnePathPerDigest(source_hashes) /\ OnePathPerDigest(destination_hashes)
  /\ (pc = "src_loop" /\ sf # "" /\ hash # None) =>
       <<hash, sf>> \in Range(source_hashes)
  /\ (pc = "dst_loop" /\ df # "" /\ hash # None) =>
       <<hash, df>> \in Range(destination_hashes)
  /\ MatchComputed =>
       /\ \A e \in Range(source_hashes) :
            Cardinality({k \in DOMAIN matches : matches[k][1] = e[2]}) <= 1
       /\ \A k, l \in DOMAIN matches :
            (matches[k][1] = matches[l][1] \/ matches[k][2] = matches[l][2]) => k = l

\* both trees held two files of one digest and the run matched the two that
\* were processed last
C17_Witness ==
  /\ MatchComputed /\ Len(matches) = 1
  /\ \A p \in Paths : ContentAt(fs0, p) = 1
  /\ Len(source_files) = 2 /\ Len(destination_files) = 2
  /\ matches[1] = <<source_files[2], destination_files[2]>>


\* C18: a completed step of a hashing loop adds to the counter of its tree
\* the size of the file it has just handled when that file was newly hashed,
\* and nothing otherwise, and the counter stays within the tree's total of
\* pending bytes
C18_CounterSumsOwnTree ==
  [][/\ (pc = "src_tail" /\ pc' = "src_loop") =>
          /\ source_files_hashed_size' =
               source_files_hashed_size + (IF add THEN SafeFileSize(sf) ELSE 0)
          /\ source_files_hashed_size' <= source_files_unhashed_size
     /\ (pc = "dst_tail" /\ pc' = "dst_loop") =>
          /\ destination_files_hashed_size' =
               destination_files_hashed_size + (IF add THEN SafeFileSize(df) ELSE 0)
          /\ destination_files_hashed_size' <= destination_files_unhashed_size]_vars


\* C19 (as stated): the null marker that a run found stored under a key is
\* what every cache-enabled call for a file with that key returns, without
\* hashing
C19_NullMarkerStaysForEver ==
  (AtReturn /\ CallUseCache /\ Stored(loaded) /\ loaded["sha1"][CallKey] = None) =>
    /\ hash = None
    /\ hasher_calls = call.hasher_calls

\* C19 (amended): a hashing that yields nothing stores the null marker under
\* the key of the file and saves the store; as long as the marker is the
\* entry of the key, a cache-enabled call for a file with that key returns
\* nothing without hashing; a file that yielded nothing is not put in the
\* digest map of its tree, so it is in no match
C19_NullMarkerIsReturnedWhileStored ==
  /\ (AtReturn /\ hasher_calls > call.hasher_calls /\ hash = None) =>
       /\ hashes["sha1"][CallKey] = None
       /\ jsonFile = Written(hashes)
  /\ (AtReturn /\ CallUseCache /\ Stored(returned) /\ returned["sha1"][CallKey] = None) =>
       /\ hash = None
       /\ hasher_calls = call.hasher_calls
  /\ \A e \in Range(source_hashes) \cup Range(destination_hashes) : e[1] # None
  /\ (pc = "src_loop" /\ sf # "" /\ hash = None) =>
       \A e \in Range(source_hashes) : e[2] # sf
  /\ (pc = "dst_loop" /\ df # "" /\ hash = None) =>
       \A e \in Range(destination_hashes) : e[2] # df

\* the second run gets nothing for a readable, non-empty file, without
\* hashing it, because the read failed in the first run
C19_Witness ==
  /\ AtReturn /\ CallUseCache /\ run = 2
  /\ Stored(returned) /\ returned["sha1"][CallKey] = None
  /\ Basename(CallFile) = "y" /\ SafeFileSize(CallFile) > 0
  /\ hash = None /\ hasher_calls = 0 /\ io_errors = 0


\* a run in a link mode with the default link policies over disjoint roots,
\* started after a run that completed
RerunAfterLinkRun ==
  /\ run >= 2 /\ last_end = "done"
  /\ ~DryRun /\ ~(argv.softlink /\ argv.hardlink)
  /\ ~argv.follow_symlinks /\ ~argv.dont_ignore_hardlinks
  /\ argv.destination \notin Range(argv.source)

\* a destination path that an earlier run has replaced by a link
Replaced(p) ==
  /\ Dirname(p) = argv.destination
  /\ fs0[p].kind = "symlink" \/ (fs0[p].kind = "file" /\ NLink(fs0, p) > 1)

\* C20: a run after a completed link run, with the default link policies
\* and disjoint roots, does not enumerate a destination path that was
\* replaced by a link: the path is in no match, is neither unlinked nor
\* linked again and stays what it was
C20_RerunLeavesReplacedPaths ==
  RerunAfterLinkRun =>
    \A p \in Paths :
      Replaced(p) =>
        /\ p \notin Range(destination_files)
        /\ \A k \in DOMAIN matches : matches[k][2] # p
        /\ unlinks[p] = 0 /\ links[p] = 0
        /\ fs[p] = fs0[p]

\* the second run of a hardlink run that had replaced two files has finished
C20_Witness ==
  /\ RerunAfterLinkRun /\ argv.hardlink /\ pc = "done"
  /\ Cardinality({p \in Paths : Replaced(p)}) = 2

====
